---- MODULE Spec2Model ----
(***************************************************************************)
(* Investment Portfolio Tracker (src/app.py): the Investment table, the    *)
(* request handlers index / delete_investment / update_investment, the     *)
(* form validation and the derived-value functions of the Investment       *)
(* entity and of the portfolio aggregator.                                 *)
(*                                                                         *)
(* Texts are sequences of one-character strings, so that float(), strip()  *)
(* and strptime() are computed from the characters.  Numbers are exact     *)
(* decimals counted in thousandths (1000 = 1.0); a float that is NaN is    *)
(* the record with nan = TRUE.  Dates are proleptic Gregorian ordinals     *)
(* (datetime.toordinal), instants are ticks, TicksPerDay to the day.       *)
(***************************************************************************)
EXTENDS Integers, Sequences, FiniteSets, TLC

VARIABLES db, owner, last

vars == <<db, owner, last>>

(***************************************************************************)
(* Bounds of the model.                                                    *)
(***************************************************************************)
MaxId == 2
TicksPerDay == 2

(***************************************************************************)
(* Texts.                                                                  *)
(***************************************************************************)
\* request.form.get(f) of a field the form does not carry
None == <<"<None>">>

Digits == {"0", "1", "2", "3", "4", "5", "6", "7", "8", "9"}

DigitVal(c) ==
    CASE c = "0" -> 0 [] c = "1" -> 1 [] c = "2" -> 2 [] c = "3" -> 3
      [] c = "4" -> 4 [] c = "5" -> 5 [] c = "6" -> 6 [] c = "7" -> 7
      [] c = "8" -> 8 [] c = "9" -> 9

AllDigits(s) == \A i \in 1..Len(s) : s[i] \in Digits

RECURSIVE DigitsVal(_)
DigitsVal(s) ==
    IF s = <<>> THEN 0
    ELSE 10 * DigitsVal(SubSeq(s, 1, Len(s) - 1)) + DigitVal(s[Len(s)])

RECURSIVE LStrip(_)
LStrip(s) == IF s # <<>> /\ s[1] = " " THEN LStrip(Tail(s)) ELSE s

RECURSIVE RStrip(_)
RStrip(s) ==
    IF s # <<>> /\ s[Len(s)] = " " THEN RStrip(SubSeq(s, 1, Len(s) - 1)) ELSE s

\* str.strip()
strip(s) == RStrip(LStrip(s))

\* truthiness of a form value: None and '' are falsy
Truthy(s) == s # None /\ s # <<>>

\* request.form.get(field, default)
Get(form, field, default) == IF form[field] = None THEN default ELSE form[field]

(***************************************************************************)
(* float(text): surrounding blanks are dropped, an optional sign, then     *)
(* "nan" or digits with an optional fraction; anything else raises         *)
(* ValueError (ok = FALSE).  The value is kept in thousandths, which is    *)
(* exact for the texts the model submits (at most 3 fraction digits).      *)
(***************************************************************************)
Num(n) == [nan |-> FALSE, v |-> n]

NaN == [nan |-> TRUE, v |-> 0]

Pad3(f) ==
    CASE Len(f) = 0 -> 0
      [] Len(f) = 1 -> 100 * DigitsVal(f)
      [] Len(f) = 2 -> 10 * DigitsVal(f)
      [] OTHER -> DigitsVal(SubSeq(f, 1, 3))

DotAt(s) == IF \E i \in 1..Len(s) : s[i] = "."
            THEN CHOOSE i \in 1..Len(s) : s[i] = "." /\ \A j \in 1..(i - 1) : s[j] # "."
            ELSE 0

Unsigned(s) ==
    LET d == DotAt(s)
        ip == IF d = 0 THEN s ELSE SubSeq(s, 1, d - 1)
        fp == IF d = 0 THEN <<>> ELSE SubSeq(s, d + 1, Len(s))
    IN  IF s = <<"n", "a", "n">> THEN [ok |-> TRUE, val |-> NaN]
        ELSE IF AllDigits(ip) /\ AllDigits(fp) /\ Len(ip) + Len(fp) > 0
        THEN [ok |-> TRUE, val |-> Num(1000 * DigitsVal(ip) + Pad3(fp))]
        ELSE [ok |-> FALSE, val |-> NaN]

float(text) ==
    LET s == strip(text)
        neg == s # <<>> /\ s[1] = "-"
        body == IF s # <<>> /\ s[1] \in {"-", "+"} THEN Tail(s) ELSE s
        u == Unsigned(body)
    IN  IF u.ok /\ neg /\ ~u.val.nan THEN [ok |-> TRUE, val |-> Num(0 - u.val.v)]
        ELSE u

\* float comparisons: every comparison with NaN is False
Lt(a, b) == ~a.nan /\ ~b.nan /\ a.v < b.v
Le(a, b) == ~a.nan /\ ~b.nan /\ a.v <= b.v
Gt(a, b) == Lt(b, a)

Zero == Num(0)

safe_float_conversion(value, default) ==
    IF value = None \/ strip(value) = <<>> THEN default
    ELSE IF float(value).ok THEN float(value).val ELSE default

(***************************************************************************)
(* datetime.strptime(text, '%Y-%m-%d'): four digits, '-', a month 1..12    *)
(* of one or two digits, '-', a day of one or two digits that exists in    *)
(* that month; the value is the day's ordinal.                             *)
(***************************************************************************)
IsLeap(y) == (y % 4 = 0 /\ y % 100 # 0) \/ y % 400 = 0

DaysInMonth(y, m) ==
    CASE m \in {1, 3, 5, 7, 8, 10, 12} -> 31
      [] m \in {4, 6, 9, 11} -> 30
      [] OTHER -> IF IsLeap(y) THEN 29 ELSE 28

RECURSIVE DaysBeforeMonth(_, _)
DaysBeforeMonth(y, m) ==
    IF m = 1 THEN 0 ELSE DaysBeforeMonth(y, m - 1) + DaysInMonth(y, m - 1)

DaysBeforeYear(y) ==
    LET p == y - 1 IN 365 * p + (p \div 4) - (p \div 100) + (p \div 400)

toordinal(y, m, d) == DaysBeforeYear(y) + DaysBeforeMonth(y, m) + d

\* the two-or-one digit fields of the format: "00" and "0" do not match
FieldOk(t) ==
    /\ Len(t) \in {1, 2}
    /\ AllDigits(t)
    /\ DigitsVal(t) >= 1

strptime(text) ==
    LET bad == [ok |-> FALSE, ord |-> 0]
    IN  IF text = None \/ Len(text) < 8 \/ Len(text) > 10 THEN bad
        ELSE
        LET ys == SubSeq(text, 1, 4)
            rest == SubSeq(text, 6, Len(text))
            dash == IF Len(rest) >= 2 /\ rest[2] = "-" THEN 2
                    ELSE IF Len(rest) >= 3 /\ rest[3] = "-" THEN 3 ELSE 0
            ms == SubSeq(rest, 1, dash - 1)
            ds == SubSeq(rest, dash + 1, Len(rest))
        IN  IF ~AllDigits(ys) \/ text[5] # "-" \/ dash = 0 THEN bad
            ELSE IF ~FieldOk(ms) \/ ~FieldOk(ds) THEN bad
            ELSE LET y == DigitsVal(ys)
                     m == DigitsVal(ms)
                     d == DigitsVal(ds)
                 IN  IF y < 1 \/ m > 12 \/ d > DaysInMonth(y, m) THEN bad
                     ELSE [ok |-> TRUE, ord |-> toordinal(y, m, d)]

(***************************************************************************)
(* Exact arithmetic on thousandths.                                        *)
(***************************************************************************)
\* a * b = q * c + r with 0 <= r < c, for a, b >= 0 and c > 0, computed by
\* halving b so that no intermediate product leaves the integer range
RECURSIVE MulDivRem(_, _, _)
MulDivRem(a, b, c) ==
    IF b = 0 THEN [q |-> 0, r |-> 0]
    ELSE LET h == MulDivRem(a, b \div 2, c)
             t == 2 * h.r + (IF b % 2 = 1 THEN a % c ELSE 0)
         IN  [q |-> 2 * h.q + (IF b % 2 = 1 THEN a \div c ELSE 0) + (t \div c),
              r |-> t % c]

\* round(x, 2) of x = (whole + r / c) thousandths, x >= 0: to the nearest
\* hundredth, a tie going to the even hundredth
round2(whole, r, c) ==
    LET cents == whole \div 10
        m == whole % 10
        up == m > 5 \/ (m = 5 /\ r > 0) \/ (m = 5 /\ r = 0 /\ cents % 2 = 1)
    IN  10 * (IF up THEN cents + 1 ELSE cents)

(***************************************************************************)
(* Investment entity.                                                      *)
(***************************************************************************)
FixedDeposit == <<"F", "i", "x", "e", "d", " ", "D", "e", "p", "o", "s", "i", "t">>

\* a maturity amount whose span runs from the maturity date back to the
\* investment date, so that the interest is taken off
calculate_maturity_amount_reversed(inv) ==
    IF Le(inv.interest_rate, Zero) THEN inv.amount
    ELSE IF inv.interest_rate.nan \/ inv.amount.nan THEN NaN
    ELSE LET days == inv.maturity_date - inv.investment_date
             i == MulDivRem(inv.amount.v, inv.interest_rate.v * days, 36525000)
         IN  IF i.r = 0 THEN Num(round2(inv.amount.v - i.q, 0, 36525000))
             ELSE Num(round2(inv.amount.v - i.q - 1, 36525000 - i.r, 36525000))

\* a maturity amount over years of 365 days
calculate_maturity_amount_365(inv) ==
    IF Le(inv.interest_rate, Zero) THEN inv.amount
    ELSE IF inv.interest_rate.nan \/ inv.amount.nan THEN NaN
    ELSE LET days == inv.maturity_date - inv.investment_date
             i == MulDivRem(inv.amount.v, inv.interest_rate.v * days, 36500000)
         IN  Num(round2(inv.amount.v + i.q, i.r, 36500000))

\* Investment.calculate_maturity_amount()
calculate_maturity_amount(inv) ==
    IF Le(inv.interest_rate, Zero) THEN inv.amount
    ELSE IF inv.interest_rate.nan \/ inv.amount.nan THEN NaN
    ELSE LET days == inv.maturity_date - inv.investment_date
             \* amount * (rate / 100) * (days / 365.25), rate in thousandths
             i == MulDivRem(inv.amount.v, inv.interest_rate.v * days, 36525000)
         IN  Num(round2(inv.amount.v + i.q, i.r, 36525000))

\* days remaining without the test for a maturity that has passed
days_remaining_unguarded(inv, today) ==
    (inv.maturity_date * TicksPerDay - today) \div TicksPerDay

\* Investment.days_remaining(), today = datetime.utcnow() in ticks
days_remaining(inv, today) ==
    LET maturity == inv.maturity_date * TicksPerDay
    IN  IF maturity > today THEN (maturity - today) \div TicksPerDay ELSE 0

\* Investment.get_display_type()
get_display_type(inv) ==
    IF inv.investment_type = FixedDeposit /\ inv.fd_type # <<>>
    THEN <<"F", "D", " ", "-", " ">> \o inv.fd_type
    ELSE inv.investment_type

(***************************************************************************)
(* Portfolio aggregator.                                                   *)
(***************************************************************************)
FAdd(a, b) == IF a.nan \/ b.nan THEN NaN ELSE Num(a.v + b.v)
FSub(a, b) == IF a.nan \/ b.nan THEN NaN ELSE Num(a.v - b.v)

\* sum(values), left to right from 0
RECURSIVE sum(_)
sum(values) ==
    IF values = <<>> THEN Zero
    ELSE FAdd(sum(SubSeq(values, 1, Len(values) - 1)), values[Len(values)])

\* a grouping loop that assigns where it should add
Accumulate_overwrite(by_type, inv) ==
    LET display_type == get_display_type(inv)
        seen == IF display_type \in DOMAIN by_type THEN by_type
                ELSE by_type @@ (display_type :> Zero)
    IN  [seen EXCEPT ![display_type] = inv.amount]

\* one turn of the grouping loop
Accumulate(by_type, inv) ==
    LET display_type == get_display_type(inv)
        seen == IF display_type \in DOMAIN by_type THEN by_type
                ELSE by_type @@ (display_type :> Zero)
    IN  [seen EXCEPT ![display_type] = FAdd(@, inv.amount)]

RECURSIVE GroupByType(_)
GroupByType(investments) ==
    IF investments = <<>> THEN [k \in {} |-> Zero]
    ELSE Accumulate(GroupByType(SubSeq(investments, 1, Len(investments) - 1)),
                    investments[Len(investments)])

calculate_portfolio_totals(investments) ==
    LET total_invested == sum([i \in 1..Len(investments) |-> investments[i].amount])
        total_maturity_value ==
            sum([i \in 1..Len(investments) |-> calculate_maturity_amount(investments[i])])
    IN  [total_invested |-> total_invested,
         total_maturity_value |-> total_maturity_value,
         total_profit |-> FSub(total_maturity_value, total_invested),
         investments_by_type |-> GroupByType(investments)]

(***************************************************************************)
(* Form handling.                                                          *)
(***************************************************************************)
Other == <<"o", "t", "h", "e", "r">>

parse_fd_type(investment_type, fd_type_option, fd_type_other) ==
    IF investment_type = FixedDeposit
    THEN IF fd_type_option = Other
         THEN IF Truthy(fd_type_other) THEN strip(fd_type_other) ELSE <<>>
         ELSE IF Truthy(fd_type_option) THEN fd_type_option ELSE <<>>
    ELSE <<>>

\* an inline resolution that stores the free text as typed
update_fd_type_untrimmed(form) ==
    IF Get(form, "investment_type", FixedDeposit) = FixedDeposit
    THEN LET fd_type_option == Get(form, "fd_type", <<>>)
         IN  IF fd_type_option = Other THEN Get(form, "fd_type_other", <<>>)
             ELSE IF Truthy(fd_type_option) THEN fd_type_option
             ELSE <<>>
    ELSE <<>>

\* the inline resolution of update_investment
update_fd_type(form) ==
    IF Get(form, "investment_type", FixedDeposit) = FixedDeposit
    THEN LET fd_type_option == Get(form, "fd_type", <<>>)
         IN  IF fd_type_option = Other THEN strip(Get(form, "fd_type_other", <<>>))
             ELSE IF Truthy(fd_type_option) THEN fd_type_option
             ELSE <<>>
    ELSE <<>>

Accept == [valid |-> TRUE, msg |-> ""]
Reject(msg) == [valid |-> FALSE, msg |-> msg]

validate_dates(form) ==
    LET investment_date == strptime(form.investment_date)
        maturity_date == strptime(form.maturity_date)
    IN  IF ~investment_date.ok \/ ~maturity_date.ok
        THEN Reject("Invalid date format. Use YYYY-MM-DD format.")
        ELSE IF maturity_date.ord <= investment_date.ord
        THEN Reject("Maturity date must be after investment date.")
        ELSE Accept

validate_interest_rate(form) ==
    LET interest_rate_str == Get(form, "interest_rate", <<"0">>)
    IN  IF ~Truthy(interest_rate_str) THEN validate_dates(form)
        ELSE IF ~float(interest_rate_str).ok
        THEN Reject("Interest rate must be a valid number.")
        ELSE IF Lt(float(interest_rate_str).val, Zero)
                \/ Gt(float(interest_rate_str).val, Num(100000))
        THEN Reject("Interest rate must be between 0 and 100.")
        ELSE validate_dates(form)

\* a validation that forgets the sign of the amount
validate_form_data_any_amount(form) ==
    IF ~Truthy(form.title) THEN Reject("Title is required.")
    ELSE IF ~Truthy(form.amount) THEN Reject("Amount is required.")
    ELSE IF ~Truthy(form.investment_date) THEN Reject("Investment Date is required.")
    ELSE IF ~Truthy(form.maturity_date) THEN Reject("Maturity Date is required.")
    ELSE IF ~float(form.amount).ok THEN Reject("Amount must be a valid number.")
    ELSE validate_interest_rate(form)

validate_form_data(form) ==
    IF ~Truthy(form.title) THEN Reject("Title is required.")
    ELSE IF ~Truthy(form.amount) THEN Reject("Amount is required.")
    ELSE IF ~Truthy(form.investment_date) THEN Reject("Investment Date is required.")
    ELSE IF ~Truthy(form.maturity_date) THEN Reject("Maturity Date is required.")
    ELSE IF ~float(form.amount).ok THEN Reject("Amount must be a valid number.")
    ELSE IF Le(float(form.amount).val, Zero) THEN Reject("Amount must be greater than 0.")
    ELSE validate_interest_rate(form)

(***************************************************************************)
(* Storage: the Investment table and the request's session.                *)
(***************************************************************************)
\* db.session.commit(): the pending rows replace the stored ones, or the
\* commit raises and the transaction is rolled back; the session, with what
\* the handler had assigned in it, ends with the request.  The commit raises
\* when the storage fails (healthy = FALSE) and when a NOT NULL column would
\* receive NULL, which is what SQLite stores for a NaN.
commit_raises(pending, healthy) ==
    ~healthy \/ \E i \in DOMAIN pending : pending[i].amount.nan

\* a commit that leaves what the session had flushed
commit_without_rollback(store, pending, healthy) == pending

commit(store, pending, healthy) ==
    IF commit_raises(pending, healthy) THEN store ELSE pending

\* a lookup that never raises 404
get_or_404_unchecked(store, id) == TRUE

\* Investment.query.get_or_404(id): TRUE when the row exists, else it raises
get_or_404(store, id) == id \in DOMAIN store

\* the primary key of the next inserted row
NewId(store) ==
    IF DOMAIN store = {} THEN 1
    ELSE 1 + CHOOSE m \in DOMAIN store : \A i \in DOMAIN store : i <= m

RECURSIVE SortedIds(_)
SortedIds(ids) ==
    IF ids = {} THEN <<>>
    ELSE LET m == CHOOSE x \in ids : \A y \in ids : x <= y
         IN  <<m>> \o SortedIds(ids \ {m})

\* Investment.query.all()
query_all(store) ==
    LET ids == SortedIds(DOMAIN store) IN [k \in 1..Len(ids) |-> store[ids[k]]]

Without(f, i) == [x \in DOMAIN f \ {i} |-> f[x]]

(***************************************************************************)
(* Responses.  A response records the request it answers (op, user, id,    *)
(* form, now), how the commit ended ("none" when none was attempted) and   *)
(* what the client is shown: the flashed category and message, or the      *)
(* rendered page.                                                          *)
(***************************************************************************)
NoForm == [title |-> None, description |-> None, amount |-> None,
           interest_rate |-> None, investment_type |-> None, fd_type |-> None,
           fd_type_other |-> None, investment_date |-> None, maturity_date |-> None]

NoView == [rendered |-> FALSE]

Response(op, user, id, form, committed, category, message) ==
    [op |-> op, user |-> user, id |-> id, form |-> form, now |-> 0,
     commit |-> committed, category |-> category, message |-> message,
     view |-> NoView]

\* render_template('index.html', ...) after calculate_portfolio_totals; a
\* stored interest rate that is NULL makes the comparison in
\* calculate_maturity_amount raise, which the 500 handler answers
Render(op, user, id, now) ==
    IF \E i \in DOMAIN db : db[i].interest_rate.nan
    THEN Response(op, user, id, NoForm, "none", "danger",
                  "An internal error occurred. Please try again.")
    ELSE [op |-> op, user |-> user, id |-> id, form |-> NoForm, now |-> now,
          commit |-> "none", category |-> "", message |-> "",
          view |-> [rendered |-> TRUE,
                    totals |-> calculate_portfolio_totals(query_all(db))]]

(***************************************************************************)
(* Request handlers.  user is the client that sends the request; owner     *)
(* remembers which client created each row (the code keeps neither).       *)
(* healthy says whether the storage accepts this request's commit.         *)
(***************************************************************************)
Init ==
    /\ db = [i \in {} |-> NoForm]
    /\ owner = [i \in {} |-> ""]
    /\ last = Response("none", "", 0, NoForm, "none", "", "")

\* index(), POST
IndexPost(user, form, healthy) ==
    LET v == validate_form_data(form)
        id == NewId(db)
        investment ==
            [title |-> form.title,
             description |-> Get(form, "description", <<>>),
             amount |-> safe_float_conversion(form.amount, Zero),
             interest_rate |-> safe_float_conversion(form.interest_rate, Zero),
             investment_type |-> Get(form, "investment_type", FixedDeposit),
             investment_date |-> strptime(form.investment_date).ord,
             maturity_date |-> strptime(form.maturity_date).ord,
             fd_type |-> parse_fd_type(Get(form, "investment_type", FixedDeposit),
                                       Get(form, "fd_type", <<>>),
                                       Get(form, "fd_type_other", <<>>))]
        pending == db @@ (id :> investment)
    IN  /\ id <= MaxId
        /\ IF ~v.valid
           THEN /\ last' = Response("create", user, 0, form, "none", "danger", v.msg)
                /\ UNCHANGED <<db, owner>>
           ELSE IF commit_raises(pending, healthy)
           THEN /\ db' = commit(db, pending, healthy)
                /\ last' = Response("create", user, 0, form, "raised", "danger",
                                    "An error occurred")
                /\ UNCHANGED owner
           ELSE /\ db' = commit(db, pending, healthy)
                /\ owner' = owner @@ (id :> user)
                /\ last' = Response("create", user, id, form, "ok", "success",
                                    "Investment added successfully!")

\* index(), GET
IndexGet(user, now) ==
    /\ last' = Render("index", user, 0, now)
    /\ UNCHANGED <<db, owner>>

\* delete_investment(id)
Delete(user, id, healthy) ==
    IF ~get_or_404(db, id)
    THEN /\ last' = Response("delete", user, id, NoForm, "none", "danger",
                             "Error deleting investment: 404 Not Found")
         /\ UNCHANGED <<db, owner>>
    ELSE LET pending == Without(db, id)
         IN  /\ db' = commit(db, pending, healthy)
             /\ IF commit_raises(pending, healthy)
                THEN /\ last' = Response("delete", user, id, NoForm, "raised", "danger",
                                         "Error deleting investment")
                     /\ UNCHANGED owner
                ELSE /\ last' = Response("delete", user, id, NoForm, "ok", "success",
                                         "Investment deleted successfully!")
                     /\ owner' = Without(owner, id)

\* update_investment(id), GET
UpdateGet(user, id, now) ==
    /\ last' = IF ~get_or_404(db, id)
               THEN Response("edit", user, id, NoForm, "none", "danger",
                             "Investment not found: 404 Not Found")
               ELSE Render("edit", user, id, now)
    /\ UNCHANGED <<db, owner>>

\* an update that forgets to assign the description
UpdatePost_keeps_description(user, id, form, healthy) ==
    IF ~get_or_404(db, id)
    THEN /\ last' = Response("update", user, id, form, "none", "danger",
                             "Investment not found: 404 Not Found")
         /\ UNCHANGED <<db, owner>>
    ELSE IF ~validate_form_data(form).valid
    THEN /\ last' = Response("update", user, id, form, "none", "danger",
                             validate_form_data(form).msg)
         /\ UNCHANGED <<db, owner>>
    ELSE LET investment ==
                 [title |-> form.title,
                  description |-> db[id].description,
                  amount |-> safe_float_conversion(form.amount, Zero),
                  interest_rate |-> safe_float_conversion(form.interest_rate, Zero),
                  investment_type |-> Get(form, "investment_type", FixedDeposit),
                  fd_type |-> update_fd_type(form),
                  investment_date |-> strptime(form.investment_date).ord,
                  maturity_date |-> strptime(form.maturity_date).ord]
             pending == [db EXCEPT ![id] = investment]
         IN  /\ db' = commit(db, pending, healthy)
             /\ last' = IF commit_raises(pending, healthy)
                        THEN Response("update", user, id, form, "raised", "danger",
                                      "An error occurred")
                        ELSE Response("update", user, id, form, "ok", "success",
                                      "Investment updated successfully!")
             /\ UNCHANGED owner

\* update_investment(id), POST
UpdatePost(user, id, form, healthy) ==
    IF ~get_or_404(db, id)
    THEN /\ last' = Response("update", user, id, form, "none", "danger",
                             "Investment not found: 404 Not Found")
         /\ UNCHANGED <<db, owner>>
    ELSE IF ~validate_form_data(form).valid
    THEN /\ last' = Response("update", user, id, form, "none", "danger",
                             validate_form_data(form).msg)
         /\ UNCHANGED <<db, owner>>
    ELSE LET investment ==
                 [title |-> form.title,
                  description |-> Get(form, "description", <<>>),
                  amount |-> safe_float_conversion(form.amount, Zero),
                  interest_rate |-> safe_float_conversion(form.interest_rate, Zero),
                  investment_type |-> Get(form, "investment_type", FixedDeposit),
                  fd_type |-> update_fd_type(form),
                  investment_date |-> strptime(form.investment_date).ord,
                  maturity_date |-> strptime(form.maturity_date).ord]
             pending == [db EXCEPT ![id] = investment]
         IN  /\ db' = commit(db, pending, healthy)
             /\ last' = IF commit_raises(pending, healthy)
                        THEN Response("update", user, id, form, "raised", "danger",
                                      "An error occurred")
                        ELSE Response("update", user, id, form, "ok", "success",
                                      "Investment updated successfully!")
             /\ UNCHANGED owner

(***************************************************************************)
(* Submitted texts.                                                        *)
(***************************************************************************)
Stocks == <<"S", "t", "o", "c", "k", "s">>
FSP == <<"F", "S", "P">>
D20240101 == <<"2", "0", "2", "4", "-", "0", "1", "-", "0", "1">>
D20241231 == <<"2", "0", "2", "4", "-", "1", "2", "-", "3", "1">>
D20250101 == <<"2", "0", "2", "5", "-", "0", "1", "-", "0", "1">>
D20240230 == <<"2", "0", "2", "4", "-", "0", "2", "-", "3", "0">>

BaseForm ==
    [title |-> <<"t">>, description |-> <<>>,
     amount |-> <<"1", "0", "0", "0", "0">>, interest_rate |-> <<"1", "0">>,
     investment_type |-> FixedDeposit, fd_type |-> FSP, fd_type_other |-> None,
     investment_date |-> D20240101, maturity_date |-> D20250101]

\* the forms of Spec: one that is stored as it is, one that validation
\* refuses, and the two with a NaN
Forms ==
    { BaseForm,
      [BaseForm EXCEPT !.amount = <<"0">>],
      [BaseForm EXCEPT !.interest_rate = <<"n", "a", "n">>],
      [BaseForm EXCEPT !.amount = <<"n", "a", "n">>] }

Users == {"A", "B"}

Ids == 1..MaxId

Noon20241231 == toordinal(2024, 12, 31) * TicksPerDay + TicksPerDay \div 2

Create == \E u \in Users, f \in Forms, h \in BOOLEAN : IndexPost(u, f, h)
List == \E u \in Users : IndexGet(u, Noon20241231)
Remove == \E u \in Users, i \in Ids, h \in BOOLEAN : Delete(u, i, h)
Edit == \E u \in Users, i \in Ids : UpdateGet(u, i, Noon20241231)
Update == \E u \in Users, i \in Ids, f \in Forms, h \in BOOLEAN : UpdatePost(u, i, f, h)

Next == Create \/ List \/ Remove \/ Edit \/ Update

Spec == Init /\ [][Next]_vars

(***************************************************************************)
(* Properties of the request handlers, checked under Spec.                 *)
(***************************************************************************)
Mutating == {"create", "update", "delete"}

\* C1: an update or delete request sent by a user other than the one who
\* created the Investment is refused and leaves the record as it was.
C1_OwnershipGating ==
    [][\A i \in DOMAIN db :
          (last'.op \in {"update", "delete"} /\ last'.id = i /\ last'.user # owner[i])
          => /\ last'.category = "danger"
             /\ i \in DOMAIN db'
             /\ db'[i] = db[i]]_vars

\* C3: every stored Investment has maturity_date > investment_date,
\* amount > 0 and 0 <= interest_rate <= 100.
C3_StoredInvariants ==
    \A i \in DOMAIN db :
        /\ db[i].maturity_date > db[i].investment_date
        /\ Gt(db[i].amount, Zero)
        /\ Le(Zero, db[i].interest_rate)
        /\ Le(db[i].interest_rate, Num(100000))

\* C4: when the commit of a create, update or delete raises, the stored
\* Investments are those from before the request and the client is shown a
\* failure, not a success.
C4_FailedCommitRollsBack ==
    [][(last'.op \in Mutating /\ last'.commit = "raised")
       => (db' = db /\ last'.category = "danger")]_vars

\* the commit of an update raised after the update had assigned a new
\* interest rate
C4_Witness ==
    /\ last.op = "update"
    /\ last.commit = "raised"
    /\ last.id \in DOMAIN db
    /\ db[last.id].interest_rate # safe_float_conversion(last.form.interest_rate, Zero)

\* C10: a delete or update request (GET or POST) for an identifier that
\* matches no stored Investment creates, changes and removes nothing, and
\* the client is shown neither a success nor the page.
C10_MissingIdRefused ==
    [][(last'.op \in {"delete", "edit", "update"} /\ last'.id \notin DOMAIN db)
       => (db' = db /\ last'.category = "danger" /\ last'.view = NoView)]_vars

\* a well-formed update was sent for an identifier that is not stored, while
\* another Investment is
C10_Witness ==
    /\ last.op = "update"
    /\ last.id \notin DOMAIN db
    /\ DOMAIN db # {}
    /\ last.form = BaseForm
    /\ last.message = "Investment not found: 404 Not Found"

(***************************************************************************)
(* SpecForms: one client, a healthy storage, and a form for each way the   *)
(* validation refuses one.                                                 *)
(***************************************************************************)
RefusedForms ==
    { [BaseForm EXCEPT !.title = <<>>],
      [BaseForm EXCEPT !.title = None],
      [BaseForm EXCEPT !.amount = None],
      [BaseForm EXCEPT !.amount = <<"x">>],
      [BaseForm EXCEPT !.amount = <<"0">>],
      [BaseForm EXCEPT !.amount = <<"-", "1">>],
      [BaseForm EXCEPT !.interest_rate = <<"x">>],
      [BaseForm EXCEPT !.interest_rate = <<"1", "0", "1">>],
      [BaseForm EXCEPT !.interest_rate = <<"-", "1">>],
      [BaseForm EXCEPT !.investment_date = None],
      [BaseForm EXCEPT !.investment_date = D20240230],
      [BaseForm EXCEPT !.maturity_date = None],
      [BaseForm EXCEPT !.maturity_date = D20240101],
      [BaseForm EXCEPT !.investment_date = D20241231, !.maturity_date = D20240101] }

CreateForms == \E f \in RefusedForms \cup {BaseForm} : IndexPost("A", f, TRUE)
UpdateForms == \E i \in Ids, f \in RefusedForms \cup {BaseForm} : UpdatePost("A", i, f, TRUE)
RemoveForms == \E i \in Ids : Delete("A", i, TRUE)

NextForms == CreateForms \/ UpdateForms \/ RemoveForms

SpecForms == Init /\ [][NextForms]_vars

\* the forms the validation is to refuse: a required field missing, an
\* amount that is no number or not positive, an interest rate that is no
\* number or outside 0..100, a malformed date, a maturity date not after
\* the investment date
InvalidForm(form) ==
    LET rate == Get(form, "interest_rate", <<"0">>)
    IN  \/ ~Truthy(form.title)
        \/ ~Truthy(form.amount)
        \/ ~Truthy(form.investment_date)
        \/ ~Truthy(form.maturity_date)
        \/ ~float(form.amount).ok
        \/ Le(float(form.amount).val, Zero)
        \/ Truthy(rate) /\ ~float(rate).ok
        \/ Truthy(rate) /\ Lt(float(rate).val, Zero)
        \/ Truthy(rate) /\ Gt(float(rate).val, Num(100000))
        \/ ~strptime(form.investment_date).ok
        \/ ~strptime(form.maturity_date).ok
        \/ strptime(form.maturity_date).ord <= strptime(form.investment_date).ord

\* C2: a create or update POST whose form fails validation leaves the
\* stored Investments, and every attribute of each, exactly as before.
C2_RejectedFormChangesNothing ==
    [][(last'.op \in {"create", "update"} /\ InvalidForm(last'.form)) => db' = db]_vars

\* an update of an existing Investment was refused for its non-positive amount
C2_Witness ==
    /\ last.op = "update"
    /\ last.id \in DOMAIN db
    /\ db[last.id].amount = Num(10000000)
    /\ InvalidForm(last.form)
    /\ last.message = "Amount must be greater than 0."

(***************************************************************************)
(* SpecFd: one client, a healthy storage, and every combination of the     *)
(* submitted category, sub-type option and free text.                      *)
(***************************************************************************)
Blank == <<" ", " ">>
PaddedCu == <<" ", "C", "u", " ">>

FdForms ==
    { [BaseForm EXCEPT !.investment_type = t, !.fd_type = o, !.fd_type_other = x] :
        t \in {None, FixedDeposit, Stocks},
        o \in {None, <<>>, FSP, Other},
        x \in {None, Blank, PaddedCu} }

CreateFd == \E f \in FdForms : IndexPost("A", f, TRUE)
UpdateFd == \E i \in Ids, f \in FdForms : UpdatePost("A", i, f, TRUE)
RemoveFd == \E i \in Ids : Delete("A", i, TRUE)

NextFd == CreateFd \/ UpdateFd \/ RemoveFd

SpecFd == Init /\ [][NextFd]_vars

\* the sub-type the rule gives for the submitted fields
FdRule(form) ==
    IF form.investment_type = FixedDeposit
    THEN IF form.fd_type = Other
         THEN IF form.fd_type_other = None THEN <<>> ELSE strip(form.fd_type_other)
         ELSE IF form.fd_type \notin {None, <<>>} THEN form.fd_type
         ELSE <<>>
    ELSE <<>>

\* C8: the create path and the update path resolve the stored sub-type
\* identically: for a submitted category, the Investment a successful
\* create or update leaves has the sub-type of the rule (Fixed Deposit with
\* option 'other': the trimmed free text; with another non-empty option:
\* that option; with none: ''; any other category: ''), and the two
\* resolutions agree on every form.
C8_SubTypeResolution ==
    /\ (last.op \in {"create", "update"} /\ last.commit = "ok"
            /\ last.form.investment_type # None)
       => db[last.id].fd_type = FdRule(last.form)
    /\ \A f \in FdForms :
          parse_fd_type(Get(f, "investment_type", FixedDeposit),
                        Get(f, "fd_type", <<>>),
                        Get(f, "fd_type_other", <<>>)) = update_fd_type(f)

\* an update stored the trimmed free text of a Fixed Deposit with option 'other'
C8_Witness ==
    /\ last.op = "update"
    /\ last.commit = "ok"
    /\ last.form.investment_type = FixedDeposit
    /\ last.form.fd_type = Other
    /\ last.form.fd_type_other = PaddedCu
    /\ db[last.id].fd_type = <<"C", "u">>

(***************************************************************************)
(* SpecCalc: Investments of several amounts, rates and spans, rendered at  *)
(* instants around their maturity.                                         *)
(***************************************************************************)
CalcForms ==
    { BaseForm,
      [BaseForm EXCEPT !.maturity_date = D20241231],
      [BaseForm EXCEPT !.amount = <<"1", ".", "0", "0", "4">>,
                       !.investment_date = D20241231],
      [BaseForm EXCEPT !.amount = <<"2", ".", "5", "0">>,
                       !.interest_rate = <<"0", ".", "5">>,
                       !.investment_date = D20241231],
      [BaseForm EXCEPT !.amount = <<"1", ".", "0", "0", "4">>,
                       !.interest_rate = None,
                       !.maturity_date = D20241231] }

Instants ==
    (toordinal(2024, 12, 30) * TicksPerDay) .. (toordinal(2025, 1, 2) * TicksPerDay)

CreateCalc == \E f \in CalcForms : IndexPost("A", f, TRUE)
ListCalc == \E now \in Instants : IndexGet("A", now)
RemoveCalc == \E i \in Ids : Delete("A", i, TRUE)
UpdateCalc == \E i \in Ids, f \in CalcForms : UpdatePost("A", i, f, TRUE)

NextCalc == CreateCalc \/ ListCalc \/ RemoveCalc \/ UpdateCalc

SpecCalc == Init /\ [][NextCalc]_vars

\* C5: every stored Investment with an interest rate > 0 has a maturity
\* amount >= its amount.
C5_MaturityAtLeastAmount ==
    \A i \in DOMAIN db :
        Gt(db[i].interest_rate, Zero)
        => Le(db[i].amount, calculate_maturity_amount(db[i]))

\* C5 as amended: every stored Investment with an interest rate > 0 and an
\* amount of at most 2 fraction digits has a maturity amount >= its amount.
C5_MaturityAtLeastAmountInCents ==
    \A i \in DOMAIN db :
        (Gt(db[i].interest_rate, Zero) /\ db[i].amount.v % 10 = 0)
        => Le(db[i].amount, calculate_maturity_amount(db[i]))

\* an amount in cents whose interest is rounded away
C5_Witness ==
    \E i \in DOMAIN db :
        /\ Gt(db[i].interest_rate, Zero)
        /\ db[i].amount.v % 10 = 0
        /\ calculate_maturity_amount(db[i]) = db[i].amount

\* C6: at the instant of a rendered page, days_remaining() of every stored
\* Investment is not negative, and is 0 exactly when maturity_date <= now.
C6_DaysRemaining ==
    last.view.rendered =>
        \A i \in DOMAIN db :
            /\ days_remaining(db[i], last.now) >= 0
            /\ days_remaining(db[i], last.now) = 0
               <=> db[i].maturity_date * TicksPerDay <= last.now

\* C6 as amended: days_remaining() is not negative, and is 0 exactly when
\* maturity_date is less than one whole day after now.
C6_DaysRemainingWholeDays ==
    last.view.rendered =>
        \A i \in DOMAIN db :
            /\ days_remaining(db[i], last.now) >= 0
            /\ days_remaining(db[i], last.now) = 0
               <=> db[i].maturity_date * TicksPerDay < last.now + TicksPerDay

\* a page rendered less than a day before a maturity, and one after another
C6_Witness ==
    /\ last.view.rendered
    /\ \E i \in DOMAIN db :
          /\ db[i].maturity_date * TicksPerDay > last.now
          /\ days_remaining(db[i], last.now) = 0
    /\ \E i \in DOMAIN db : db[i].maturity_date * TicksPerDay < last.now

\* the Investment of the example: 10000 at 10 from 2024-01-01 to 2025-01-01
Example(inv) ==
    /\ inv.amount = Num(10000000)
    /\ inv.interest_rate = Num(10000)
    /\ inv.investment_date = toordinal(2024, 1, 1)
    /\ inv.maturity_date = toordinal(2025, 1, 1)

\* whole days / 365.25, to 4 places, in ten-thousandths
Years4(inv) ==
    LET y == MulDivRem(inv.maturity_date - inv.investment_date, 1000000, 36525)
    IN  y.q + (IF 2 * y.r >= 36525 THEN 1 ELSE 0)

\* C7: for the Investment of the example, the days divided by 365.25 are
\* 1.0007 and calculate_maturity_amount() is 11000.68.
C7_Example ==
    \A i \in DOMAIN db :
        Example(db[i])
        => (Years4(db[i]) = 10007 /\ calculate_maturity_amount(db[i]) = Num(11000680))

\* C7 as amended: for the Investment of the example, the span is 366 days,
\* the days divided by 365.25 are 1.0021 and calculate_maturity_amount() is
\* 11002.05.
C7_ExampleLeapYear ==
    \A i \in DOMAIN db :
        Example(db[i])
        => /\ db[i].maturity_date - db[i].investment_date = 366
           /\ Years4(db[i]) = 10021
           /\ calculate_maturity_amount(db[i]) = Num(11002050)

\* the Investment of the example is stored
C7_Witness == \E i \in DOMAIN db : Example(db[i])

(***************************************************************************)
(* SpecAgg: Investments of several display types and amounts, aggregated.  *)
(***************************************************************************)
AggForms ==
    { [BaseForm EXCEPT !.amount = <<"5", "0", "0", "0">>],
      [BaseForm EXCEPT !.amount = <<"3", "0", "0", "0">>,
                       !.investment_type = Stocks, !.fd_type = None],
      [BaseForm EXCEPT !.amount = <<"1", ".", "0", "0", "4">>,
                       !.interest_rate = <<"0">>],
      [BaseForm EXCEPT !.amount = <<"3", "0", "0", "0">>, !.fd_type = <<>>],
      [BaseForm EXCEPT !.fd_type = Other, !.fd_type_other = PaddedCu] }

CreateAgg == \E f \in AggForms : IndexPost("A", f, TRUE)
ListAgg == IndexGet("A", Noon20241231)
EditAgg == \E i \in Ids : UpdateGet("A", i, Noon20241231)
RemoveAgg == \E i \in Ids : Delete("A", i, TRUE)
UpdateAgg == \E i \in Ids, f \in AggForms : UpdatePost("A", i, f, TRUE)

NextAgg == CreateAgg \/ ListAgg \/ EditAgg \/ RemoveAgg \/ UpdateAgg

SpecAgg == Init /\ [][NextAgg]_vars

\* 'FD - <fd_type>' for a Fixed Deposit with a sub-type, else the bare type
DisplayType(inv) ==
    IF inv.investment_type = FixedDeposit /\ inv.fd_type # <<>>
    THEN <<"F", "D", " ", "-", " ">> \o inv.fd_type
    ELSE inv.investment_type

RECURSIVE AmountOf(_)
AmountOf(ids) ==
    IF ids = {} THEN 0
    ELSE LET i == CHOOSE x \in ids : TRUE IN db[i].amount.v + AmountOf(ids \ {i})

RECURSIVE ValuesOf(_, _)
ValuesOf(m, keys) ==
    IF keys = {} THEN 0
    ELSE LET k == CHOOSE x \in keys : TRUE IN m[k].v + ValuesOf(m, keys \ {k})

OtherForm ==
    [title |-> <<"u">>, description |-> <<"d">>,
     amount |-> <<"1", ".", "0", "0", "4">>, interest_rate |-> <<"0", ".", "5">>,
     investment_type |-> Stocks, fd_type |-> FSP, fd_type_other |-> None,
     investment_date |-> D20241231, maturity_date |-> D20250101]

SparseForm ==
    [title |-> <<"v">>, description |-> None,
     amount |-> <<"2", ".", "5", "0">>, interest_rate |-> None,
     investment_type |-> None, fd_type |-> Other, fd_type_other |-> PaddedCu,
     investment_date |-> D20240101, maturity_date |-> D20241231]

FrameForms == {BaseForm, OtherForm, SparseForm}

CreateFrame == \E f \in FrameForms, h \in BOOLEAN : IndexPost("A", f, h)
UpdateFrame == \E i \in Ids, f \in FrameForms, h \in BOOLEAN : UpdatePost("A", i, f, h)
RemoveFrame == \E i \in Ids, h \in BOOLEAN : Delete("A", i, h)

NextFrame == CreateFrame \/ UpdateFrame \/ RemoveFrame

SpecFrame == Init /\ [][NextFrame]_vars

\* the attributes a form submits: each field as submitted, the numbers and
\* dates as the values their texts denote, the sub-type as the rule
\* resolves it; a field left out counts as '' (description), 0 (interest
\* rate) or 'Fixed Deposit' (category)
Submitted(form) ==
    LET category == IF form.investment_type = None THEN FixedDeposit
                    ELSE form.investment_type
    IN  [title |-> form.title,
         description |-> IF form.description = None THEN <<>> ELSE form.description,
         amount |-> float(form.amount).val,
         interest_rate |-> IF form.interest_rate \in {None, <<>>} THEN Zero
                           ELSE float(form.interest_rate).val,
         investment_type |-> category,
         fd_type |-> FdRule([form EXCEPT !.investment_type = category]),
         investment_date |-> strptime(form.investment_date).ord,
         maturity_date |-> strptime(form.maturity_date).ord]

\* C11: a successful update of the Investment with identifier i leaves the
\* stored identifiers as they were, gives i all the submitted attributes
\* and leaves every other Investment unchanged; a successful delete of i
\* removes i, and nothing else, and leaves every other Investment unchanged.
C11_Frame ==
    [][/\ (last'.op = "update" /\ last'.commit = "ok")
          => /\ last'.id \in DOMAIN db
             /\ DOMAIN db' = DOMAIN db
             /\ db'[last'.id] = Submitted(last'.form)
             /\ \A j \in DOMAIN db \ {last'.id} : db'[j] = db[j]
       /\ (last'.op = "delete" /\ last'.commit = "ok")
          => /\ last'.id \in DOMAIN db
             /\ DOMAIN db' = DOMAIN db \ {last'.id}
             /\ \A j \in DOMAIN db' : db'[j] = db[j]]_vars

\* an update has replaced every attribute of one Investment while another,
\* different in every attribute, is stored beside it
C11_Witness ==
    /\ last.op = "update"
    /\ last.commit = "ok"
    /\ last.form = OtherForm
    /\ db[last.id] = Submitted(OtherForm)
    /\ \E j \in DOMAIN db \ {last.id} : db[j] = Submitted(BaseForm)

====
